---- MODULE Spec2Model ----
(***************************************************************************)
(* RealtimeVisualizer (server/src/realtime_visualizer.py): a two-panel     *)
(* live chart of six IMU channels.  The model covers the redraw tick       *)
(* (animate), the blocking run (start_visualization) and                   *)
(* stop_visualization, together with the parts of matplotlib's            *)
(* FuncAnimation / pyplot they drive (timer, close_event, axis limits).    *)
(*                                                                         *)
(* Axis limits are kept in thousandths (fixed point), so that              *)
(* min - 0.1 * range is the integer 1000 * min - 100 * range.              *)
(***************************************************************************)
EXTENDS Integers, Sequences, FiniteSets, TLC

(* ------------------------------ bounds --------------------------------- *)

\* longest "short" sample window returned by the accessor
MaxLen == 3

\* saturation of the consecutive-failure counter (history only)
MaxStreak == 2

(* ------------------------- program constants --------------------------- *)

\* max(50, data_length): minimum visible horizontal span
MinSpan == 50

(* ------------------------------ data ----------------------------------- *)

Series == {"Ax", "Ay", "Az", "Gx", "Gy", "Gz"}
Channels == Series \cup {"frame"}

\* window sizes the visualizer is constructed with: a small one, and one
\* above the minimum span so that max(50, L) = L happens at or below W
WindowSizes == {MaxLen - 1, MinSpan + 2}

\* lengths of the frame sequence the accessor returns: 0 .. MaxLen and,
\* for the large window size, one between the minimum span and the window
\* size and one above both
Lengths(W) ==
    (0 .. MaxLen) \cup (IF W > MinSpan THEN {W - 1, W + 1} ELSE {})

\* histories the accelerometer and the gyroscope channels are drawn from
AccShapes == {"flat", "ramp"}
GyShapes == {"flat", "zigzag"}

\* the i-th sample (0-based) of channel c in a history of the given shape.
\* "flat" makes the three channels of an area identical constants (zero
\* range); the other shapes give every channel its own values.
Sample(c, shape, i) ==
    IF shape = "flat" THEN (IF c \in {"Ax", "Ay", "Az"} THEN 7 ELSE 0 - 3)
    ELSE IF shape = "ramp" THEN
        CASE c = "Ax" -> i
          [] c = "Ay" -> 100 - 2 * i
          [] c = "Az" -> 5 + 3 * i
          [] OTHER -> i
    ELSE
        CASE c = "Gx" -> 9 - 3 * (i % 4)
          [] c = "Gy" -> 6 * (i % 2)
          [] c = "Gz" -> ((3 * i) % 7) - 3
          [] OTHER -> i

\* what one call of the accessor produces: it raises, it returns a falsy
\* value (None, {}), or it returns a mapping.  A mapping is described by
\* the length of frame (n), of the accelerometer channels (na) and of the
\* gyroscope channels (ng), the shape of each group, and a key it lacks.
Raises == [kind |-> "raise", n |-> 0, na |-> 0, ng |-> 0,
           sa |-> "flat", sg |-> "flat", missing |-> "none"]
Falsy == [kind |-> "falsy", n |-> 0, na |-> 0, ng |-> 0,
          sa |-> "flat", sg |-> "flat", missing |-> "none"]
Win(n, na, ng, sa, sg, missing) ==
    [kind |-> "window", n |-> n, na |-> na, ng |-> ng,
     sa |-> sa, sg |-> sg, missing |-> missing]

\* sample windows as the inbound contract describes them: all seven
\* channels present and of the same length
WellFormedResults(W) ==
    {Win(0, 0, 0, "flat", "flat", "none")}
    \cup {Win(n, n, n, sa, sg, "none") :
             n \in (Lengths(W) \ {0}), sa \in AccShapes, sg \in GyShapes}

\* mappings that break the contract: gyroscope channels empty,
\* accelerometer channels longer than frame, frame empty beside filled
\* channels, a key absent
MalformedResults ==
    {Win(n, n, 0, "ramp", "zigzag", "none") : n \in 1 .. MaxLen}
    \cup {Win(n, n + 1, n, "ramp", "zigzag", "none") : n \in {1, MaxLen}}
    \cup {Win(0, MaxLen, MaxLen, "ramp", "zigzag", "none")}
    \cup {Win(MaxLen, MaxLen, MaxLen, "ramp", "zigzag", m) :
             m \in {"frame", "Ay", "Gz"}}

Results(W) == {Raises, Falsy} \cup WellFormedResults(W) \cup MalformedResults

WellFormed(res) ==
    /\ res.kind = "window"
    /\ res.missing = "none"
    /\ res.na = res.n
    /\ res.ng = res.n

\* the mapping a descriptor stands for
ChannelLen(res, c) ==
    IF c = "frame" THEN res.n
    ELSE IF c \in {"Ax", "Ay", "Az"} THEN res.na ELSE res.ng

ChannelShape(res, c) ==
    IF c \in {"Ax", "Ay", "Az"} THEN res.sa ELSE res.sg

Window(res) ==
    [keys |-> Channels \ {res.missing},
     ch |-> [c \in Channels |->
               [i \in 1 .. ChannelLen(res, c) |->
                   Sample(c, ChannelShape(res, c), i - 1)]]]

(* --------------------------- pure helpers ------------------------------ *)

\* list(range(n))
RangeList(n) == [i \in 1 .. n |-> i - 1]

\* a slip: s[:len(s) - start], the leading instead of the trailing part
SliceHead(s, start) ==
    IF start >= Len(s) THEN <<>> ELSE SubSeq(s, 1, Len(s) - start)

\* s[start:] for start >= 0
SliceFrom(s, start) ==
    IF start >= Len(s) THEN <<>> ELSE SubSeq(s, start + 1, Len(s))

\* min(s) and max(s) of a non-empty sequence
SeqMin(s) ==
    LET S == {s[i] : i \in 1 .. Len(s)}
    IN CHOOSE m \in S : \A x \in S : m <= x

SeqMax(s) == 0 - SeqMin([i \in 1 .. Len(s) |-> 0 - s[i]])

MaxOf(a, b) == IF a >= b THEN a ELSE b

(* ------------------------ animate, step by step ------------------------ *)

\* the plot before any redraw: six empty series (ax.plot([], [])) and
\* matplotlib's default view of an empty axes, (-0.055, 0.055)
DefaultLim == <<0 - 55, 55>>
EmptyLines == [c \in Series |-> [x |-> <<>>, y |-> <<>>]]
InitialPlot ==
    [lines |-> EmptyLines,
     ax1_ylim |-> DefaultLim, ax2_ylim |-> DefaultLim,
     ax1_xlim |-> DefaultLim, ax2_xlim |-> DefaultLim]

\* a slip: the x-coordinates always span the whole window size
XDataFixed(data_length, W) == RangeList(W)

\* x_data: list(range(window_size)) or list(range(data_length))
XData(data_length, W) ==
    IF data_length > W THEN RangeList(W) ELSE RangeList(data_length)

\* a slip: the channel is never cut to the window size
SelectAll(ch, data_length, W) == ch

\* one channel after windowing: data[c][start_idx:] or data[c]
Select(ch, data_length, W) ==
    IF data_length > W THEN SliceFrom(ch, data_length - W) ELSE ch

\* a slip: the limits are set without the "range > 0" test
AutoscaleUnguarded(prev, vals) ==
    LET mn == SeqMin(vals)
        mx == SeqMax(vals)
        rng == mx - mn
    IN <<1000 * mn - 100 * rng, 1000 * mx + 100 * rng>>

\* set_ylim(min - 0.1 * range, max + 0.1 * range) when range > 0,
\* otherwise the limits stay as they are
Autoscale(prev, vals) ==
    LET mn == SeqMin(vals)
        mx == SeqMax(vals)
        rng == mx - mn
    IN IF rng > 0 THEN <<1000 * mn - 100 * rng, 1000 * mx + 100 * rng>>
       ELSE prev

\* a slip: the minimum span is applied in both branches
XLimFloored(data_length, W) ==
    IF data_length > W THEN <<0, 1000 * MaxOf(MinSpan, W)>>
    ELSE <<0, 1000 * MaxOf(MinSpan, data_length)>>

\* set_xlim(0, window_size) or set_xlim(0, max(50, data_length))
XLim(data_length, W) ==
    IF data_length > W THEN <<0, 1000 * W>>
    ELSE <<0, 1000 * MaxOf(MinSpan, data_length)>>

\* a slip: only "not data" is tested, an empty frame goes on
NoDataFalsyOnly(res) == res.kind = "falsy"

\* "not data or len(data['frame']) == 0", evaluated once data['frame']
\* is known to exist
NoData(res) == res.kind = "falsy" \/ res.n = 0

\* a normal return of animate
Return(p, stage) ==
    [plot |-> p, raised |-> FALSE, propagated |-> FALSE, stage |-> stage]

\* a slip: the handler logs and re-raises
ExceptHandlerReraise(p, stage) ==
    [plot |-> p, raised |-> TRUE, propagated |-> TRUE, stage |-> stage]

\* a slip: the handler blanks the six series
ExceptHandlerBlank(p, stage) ==
    [plot |-> [p EXCEPT !.lines = EmptyLines], raised |-> TRUE,
     propagated |-> FALSE, stage |-> stage]

\* except Exception as e: print(...) -- the tick ends with whatever had
\* been applied when the exception was raised
ExceptHandler(p, stage) ==
    [plot |-> p, raised |-> TRUE, propagated |-> FALSE, stage |-> stage]

\* lines 103-123, entered after the six set_data calls
ScaleAxes(p, W, data_length, sel) ==
    LET acc_data == sel["Ax"] \o sel["Ay"] \o sel["Az"]
        gy_data == sel["Gx"] \o sel["Gy"] \o sel["Gz"]
        p1 == [p EXCEPT !.ax1_ylim = Autoscale(p.ax1_ylim, acc_data)]
        p2 == [p1 EXCEPT !.ax2_ylim = Autoscale(p1.ax2_ylim, gy_data)]
        withX(q) == [q EXCEPT !.ax1_xlim = XLim(data_length, W),
                              !.ax2_xlim = XLim(data_length, W)]
    IN IF Len(sel["Ax"]) > 0
       THEN \* acc_data holds acc_x, so it is not empty; min(gy_data)
            \* raises ValueError when the gyroscope channels are empty
            IF gy_data = <<>> THEN ExceptHandler(p1, "autoscale")
            ELSE Return(withX(p2), "drawn")
       ELSE Return(withX(p), "drawn")

\* animate(frame): p is the plot, W window_size, cb data_callback, res
\* what the accessor does when called
Animate(p, W, cb, res) ==
    IF cb = "None" THEN Return(p, "unbound")
    ELSE IF res.kind = "raise" THEN ExceptHandler(p, "accessor")
    ELSE IF res.kind = "falsy" THEN Return(p, "nodata")
    ELSE
      LET data == Window(res) IN
      IF "frame" \notin data.keys THEN ExceptHandler(p, "windowing")
      ELSE IF NoData(res) THEN Return(p, "nodata")
      ELSE
        LET data_length == Len(data.ch["frame"])
            sel == [c \in Series |-> Select(data.ch[c], data_length, W)]
            x_data == XData(data_length, W)
            drawn == [p EXCEPT !.lines =
                         [c \in Series |-> [x |-> x_data, y |-> sel[c]]]]
        IN IF \E c \in Series : c \notin data.keys
           THEN ExceptHandler(p, "windowing")
           ELSE ScaleAxes(drawn, W, data_length, sel)

(* --------------------------- the visualizer ---------------------------- *)

VARIABLES
    window_size,    \* self.window_size
    data_callback,  \* self.data_callback: "None" or "accessor"
    animation,      \* self.animation: "None" or "FuncAnimation"
    event_source,   \* self.animation.event_source: "timer", or "None" once
                    \* the animation has handled the figure's close_event
    timer_running,  \* the timer is armed and will call animate again
    fig_open,       \* the chart surface exists
    phase,          \* "Configured", "Running" (inside plt.show()), "Exited"
    plot,           \* the six series and the limits of ax1 and ax2
    last,           \* history: the last operation and its outcome
    exit_info,      \* history: how start_visualization left plt.show()
    fail_streak,    \* history: consecutive failing ticks, saturating
    contract_kept   \* history: every mapping returned so far had its six
                    \* data channels as long as frame

vars == <<window_size, data_callback, animation, event_source, timer_running,
          fig_open, phase, plot, last, exit_info, fail_streak, contract_kept>>

Op(op, res, raised, stage, threw) ==
    [op |-> op, res |-> res, raised |-> raised, stage |-> stage,
     threw |-> threw]

NoExit == [cause |-> "none", cleanup_ran |-> FALSE, cleanup_raised |-> FALSE]

\* __init__ and setup_plot
Init ==
    /\ window_size \in WindowSizes
    /\ data_callback = "None"
    /\ animation = "None"
    /\ event_source = "None"
    /\ timer_running = FALSE
    /\ fig_open = TRUE
    /\ phase = "Configured"
    /\ plot = InitialPlot
    /\ last = Op("init", Falsy, FALSE, "none", FALSE)
    /\ exit_info = NoExit
    /\ fail_streak = 0
    /\ contract_kept = TRUE

\* "if self.animation: self.animation.event_source.stop()": stops the
\* timer, or raises AttributeError when event_source is None
StopTimer(anim, es, running) ==
    IF anim = "None" THEN [timer_running |-> running, raised |-> FALSE]
    ELSE IF es = "timer" THEN [timer_running |-> FALSE, raised |-> FALSE]
    ELSE [timer_running |-> running, raised |-> TRUE]

\* the figure's close_event, to which FuncAnimation connected
\* Animation._stop: it removes the timer callback and sets
\* self.event_source = None
CloseEvent(anim, es) ==
    IF anim # "None" /\ es = "timer" THEN "None" ELSE es

\* start_visualization up to the blocking plt.show(); the first draw
\* starts the timer.  Starting again, or after the surface was closed, is
\* outside the supported life cycle.
StartVisualization(cb) ==
    /\ phase = "Configured"
    /\ fig_open
    /\ data_callback' = cb
    /\ animation' = "FuncAnimation"
    /\ event_source' = "timer"
    /\ timer_running' = TRUE
    /\ phase' = "Running"
    /\ last' = Op("start", Falsy, FALSE, "none", FALSE)
    /\ UNCHANGED <<window_size, fig_open, plot, exit_info, fail_streak,
                   contract_kept>>

\* one firing of the timer: animate(frame).  An exception that left
\* animate would leave the timer callback before the timer is re-armed.
Tick(res) ==
    /\ phase = "Running"
    /\ fig_open
    /\ timer_running
    /\ event_source = "timer"
    /\ LET r == Animate(plot, window_size, data_callback, res) IN
         /\ plot' = r.plot
         /\ timer_running' = ~r.propagated
         /\ last' = Op("tick", res, r.raised, r.stage, r.propagated)
         /\ fail_streak' = IF r.raised
                           THEN (IF fail_streak < MaxStreak
                                 THEN fail_streak + 1 ELSE MaxStreak)
                           ELSE 0
    /\ contract_kept' = (contract_kept /\
                           (res.kind = "window" =>
                              (res.na = res.n /\ res.ng = res.n)))
    /\ UNCHANGED <<window_size, data_callback, animation, event_source,
                   fig_open, phase, exit_info>>

\* the user closes the chart surface: close_event is processed, plt.show()
\* returns, and the finally block of start_visualization runs
CloseSurface ==
    /\ phase = "Running"
    /\ fig_open
    /\ LET es == CloseEvent(animation, event_source)
           c == StopTimer(animation, es, FALSE)
       IN /\ event_source' = es
          /\ timer_running' = c.timer_running
          /\ exit_info' = [cause |-> "closed", cleanup_ran |-> TRUE,
                           cleanup_raised |-> c.raised]
          /\ last' = Op("close", Falsy, FALSE, "none", c.raised)
    /\ fig_open' = FALSE
    /\ phase' = "Exited"
    /\ UNCHANGED <<window_size, data_callback, animation, plot, fail_streak,
                   contract_kept>>

\* KeyboardInterrupt (or another exception) leaves plt.show(); the finally
\* block runs and the exception goes on to the caller
Interrupt ==
    /\ phase = "Running"
    /\ fig_open
    /\ LET c == StopTimer(animation, event_source, timer_running) IN
          /\ timer_running' = c.timer_running
          /\ exit_info' = [cause |-> "interrupt", cleanup_ran |-> TRUE,
                           cleanup_raised |-> c.raised]
    /\ phase' = "Exited"
    /\ last' = Op("interrupt", Falsy, FALSE, "none", TRUE)
    /\ UNCHANGED <<window_size, data_callback, animation, event_source,
                   fig_open, plot, fail_streak, contract_kept>>

\* stop_visualization, callable in every phase.  plt.close('all') destroys
\* the surface, which fires close_event; when called during the run,
\* plt.show() then returns and the finally block of start_visualization
\* runs as well.
StopVisualization ==
    LET s == StopTimer(animation, event_source, timer_running) IN
    IF s.raised
    THEN /\ last' = Op("stop", Falsy, FALSE, "none", TRUE)
         /\ UNCHANGED <<window_size, data_callback, animation, event_source,
                        timer_running, fig_open, phase, plot, exit_info,
                        fail_streak, contract_kept>>
    ELSE LET es == IF fig_open THEN CloseEvent(animation, event_source)
                   ELSE event_source
             c == StopTimer(animation, es, s.timer_running)
         IN /\ event_source' = es
            /\ fig_open' = FALSE
            /\ IF phase = "Running"
               THEN /\ phase' = "Exited"
                    /\ timer_running' = c.timer_running
                    /\ exit_info' = [cause |-> "stop", cleanup_ran |-> TRUE,
                                     cleanup_raised |-> c.raised]
               ELSE /\ timer_running' = s.timer_running
                    /\ UNCHANGED <<phase, exit_info>>
            /\ last' = Op("stop", Falsy, FALSE, "none", FALSE)
            /\ UNCHANGED <<window_size, data_callback, animation, plot,
                           fail_streak, contract_kept>>

\* the accessor is called only when one is bound
Next ==
    \/ \E cb \in {"None", "accessor"} : StartVisualization(cb)
    \/ \E res \in (IF data_callback = "None" THEN {Falsy}
                      ELSE Results(window_size)) :
          Tick(res)
    \/ CloseSurface
    \/ Interrupt
    \/ StopVisualization

Spec == Init /\ [][Next]_vars

TypeOK ==
    /\ window_size \in WindowSizes
    /\ data_callback \in {"None", "accessor"}
    /\ animation \in {"None", "FuncAnimation"}
    /\ event_source \in {"None", "timer"}
    /\ timer_running \in BOOLEAN
    /\ fig_open \in BOOLEAN
    /\ phase \in {"Configured", "Running", "Exited"}
    /\ fail_streak \in 0 .. MaxStreak

(* ------------------------------ properties ----------------------------- *)

\* the channel c of the mapping the last tick received
Channel(res, c) == Window(res).ch[c]

\* s holds exactly the last k values of full, in order
IsTrailing(s, full, k) ==
    /\ Len(s) = k
    /\ \A i \in 1 .. k : s[i] = full[Len(full) - k + i]

\* x is 0, 1, ..., k - 1
IsIndexRange(x, k) ==
    /\ Len(x) = k
    /\ \A i \in 1 .. k : x[i] = i - 1

\* the values displayed in the three series of an area
Displayed(lines, area) ==
    UNION {{lines[c].y[i] : i \in 1 .. Len(lines[c].y)} : c \in area}

\* [min - 0.1 * (max - min), max + 0.1 * (max - min)] over V, in
\* thousandths; prev when max = min
ExpectedYLim(prev, V) ==
    LET mn == CHOOSE m \in V : \A v \in V : m <= v
        mx == CHOOSE m \in V : \A v \in V : m >= v
    IN IF mx > mn
       THEN <<1000 * mn - 100 * (mx - mn), 1000 * mx + 100 * (mx - mn)>>
       ELSE prev

\* [0, W] when L > W, [0, max(50, L)] otherwise, in thousandths
ExpectedXLim(L, W) ==
    IF L > W THEN <<0, 1000 * W>>
    ELSE IF L > MinSpan THEN <<0, 1000 * L>> ELSE <<0, 1000 * MinSpan>>

LastTickOn(res) == last.op = "tick" /\ last.res = res

\* C1: after a tick on a sample window whose channels all have length
\* L > W (W >= 1), each of the six series holds exactly the last W values
\* of its channel, in order, over the x-coordinates 0 .. W-1.
C1_TrailingWindowShown ==
    (/\ last.op = "tick"
     /\ WellFormed(last.res)
     /\ window_size >= 1
     /\ last.res.n > window_size)
    => \A c \in Series :
          /\ IsTrailing(plot.lines[c].y, Channel(last.res, c), window_size)
          /\ IsIndexRange(plot.lines[c].x, window_size)

C1_Witness ==
    /\ last.op = "tick"
    /\ WellFormed(last.res)
    /\ last.res.n > window_size
    /\ last.res.sa = "ramp"
    /\ last.res.sg = "zigzag"
    /\ Len(plot.lines["Az"].y) = window_size

\* C2: after a tick on a sample window whose channels all have length L,
\* 1 <= L <= W, each of the six series holds all L values of its channel,
\* in order, over the x-coordinates 0 .. L-1.
C2_WholeWindowShown ==
    (/\ last.op = "tick"
     /\ WellFormed(last.res)
     /\ last.res.n >= 1
     /\ last.res.n <= window_size)
    => \A c \in Series :
          /\ plot.lines[c].y = Channel(last.res, c)
          /\ IsIndexRange(plot.lines[c].x, last.res.n)

C2_Witness ==
    /\ last.op = "tick"
    /\ WellFormed(last.res)
    /\ last.res.n >= 1
    /\ last.res.n < window_size
    /\ last.res.sa = "ramp"
    /\ Len(plot.lines["Gy"].y) = last.res.n

\* C3: a tick with no accessor bound, with a falsy accessor result, or on
\* a mapping whose frame sequence is empty changes nothing of the plot:
\* the data of the six series and the vertical and horizontal limits of
\* both areas are as before, whatever the other channels hold.
C3_NoDataTickIsNoOp ==
    [][(/\ last'.op = "tick"
        /\ \/ data_callback = "None"
           \/ last'.res.kind = "falsy"
           \/ (/\ last'.res.kind = "window"
               /\ last'.res.missing # "frame"
               /\ last'.res.n = 0))
       => plot' = plot]_vars

C3_Witness ==
    /\ LastTickOn(Win(0, MaxLen, MaxLen, "ramp", "zigzag", "none"))
    /\ plot.lines["Ax"].y # <<>>
    /\ plot.ax1_xlim # DefaultLim

\* C4: after a tick on a sample window with L >= 1 equal-length channels,
\* each area on its own has the vertical limits
\* [min - 0.1 * (max - min), max + 0.1 * (max - min)] over the values just
\* displayed in its three series when max > min, and the limits it had
\* before the tick when max = min.
C4_AutoscalePerArea ==
    [][(/\ last'.op = "tick"
        /\ WellFormed(last'.res)
        /\ last'.res.n >= 1)
       => /\ plot'.ax1_ylim =
               ExpectedYLim(plot.ax1_ylim,
                            Displayed(plot'.lines, {"Ax", "Ay", "Az"}))
          /\ plot'.ax2_ylim =
               ExpectedYLim(plot.ax2_ylim,
                            Displayed(plot'.lines, {"Gx", "Gy", "Gz"}))]_vars

\* a zero range in the accelerometer area beside a rescaled gyroscope area,
\* the accelerometer limits being those of an earlier tick
C4_Witness ==
    /\ last.op = "tick"
    /\ WellFormed(last.res)
    /\ last.res.n >= 1
    /\ last.res.sa = "flat"
    /\ last.res.sg = "zigzag"
    /\ plot.ax1_ylim # DefaultLim
    /\ plot.ax2_ylim # DefaultLim
    /\ plot.ax2_ylim # plot.ax1_ylim

\* C5 as stated: after a tick on a mapping whose frame has length L >= 1,
\* the horizontal limits of both areas are [0, W] when L > W and
\* [0, max(50, L)] when L <= W.
C5_AsStated ==
    (/\ last.op = "tick"
     /\ last.res.kind = "window"
     /\ last.res.missing # "frame"
     /\ last.res.n >= 1)
    => /\ plot.ax1_xlim = ExpectedXLim(last.res.n, window_size)
       /\ plot.ax2_xlim = ExpectedXLim(last.res.n, window_size)

\* C5, amended: after a tick on a sample window whose seven channels are
\* all present and of the same length L >= 1, the horizontal limits of
\* both areas are [0, W] when L > W and [0, max(50, L)] when L <= W.
C5_HorizontalExtent ==
    (/\ last.op = "tick"
     /\ WellFormed(last.res)
     /\ last.res.n >= 1)
    => /\ plot.ax1_xlim = ExpectedXLim(last.res.n, window_size)
       /\ plot.ax2_xlim = ExpectedXLim(last.res.n, window_size)

C5_Witness ==
    /\ last.op = "tick"
    /\ WellFormed(last.res)
    /\ last.res.n > MinSpan
    /\ last.res.n < window_size
    /\ plot.ax1_xlim = <<0, 1000 * last.res.n>>
    /\ plot.ax2_xlim = <<0, 1000 * last.res.n>>

\* C6: an exception raised inside a tick does not leave animate, the run
\* goes on with the timer armed so that the next tick can fire, however
\* many ticks fail in a row; the run ends only by closing the surface, by
\* an interrupt or by stop_visualization.
C6_FailingTickKeepsRunning ==
    [][/\ (last'.op = "tick" /\ last'.raised)
            => (/\ ~last'.threw
                /\ phase' = "Running"
                /\ fig_open'
                /\ timer_running'
                /\ event_source' = "timer")
       /\ (phase = "Running" /\ timer_running /\ ~timer_running')
            => last'.op \in {"close", "interrupt", "stop"}
       /\ (phase = "Running" /\ phase' # "Running")
            => last'.op \in {"close", "interrupt", "stop"}]_vars

C6_Witness ==
    /\ last.op = "tick"
    /\ last.raised
    /\ fail_streak = MaxStreak
    /\ phase = "Running"
    /\ timer_running
    /\ event_source = "timer"

\* C7 as stated: after a tick that failed with an exception, each series
\* holds exactly the data it held before the tick.
C7_AsStated ==
    [][(last'.op = "tick" /\ last'.raised)
          => plot'.lines = plot.lines]_vars

\* C7, amended: after a tick that failed with an exception raised before
\* the series update (by the accessor, or by a mapping that lacks a
\* channel), each series holds exactly the data it held before the tick;
\* after a tick that failed later (in the autoscale), the six series hold
\* the windowed data of the mapping the tick received.
C7_StaleUnlessAlreadyUpdated ==
    [][(last'.op = "tick" /\ last'.raised)
          => IF last'.res.kind = "raise" \/ last'.res.missing # "none"
             THEN plot'.lines = plot.lines
             ELSE \A c \in Series :
                    /\ IsIndexRange(plot'.lines[c].x,
                                    IF last'.res.n > window_size
                                    THEN window_size ELSE last'.res.n)
                    /\ IF last'.res.n > window_size
                       THEN plot'.lines[c].y =
                              SubSeq(Channel(last'.res, c),
                                     last'.res.n - window_size + 1,
                                     Len(Channel(last'.res, c)))
                       ELSE plot'.lines[c].y = Channel(last'.res, c)]_vars

C7_Witness ==
    /\ LastTickOn(Win(MaxLen, MaxLen, MaxLen, "ramp", "zigzag", "Gz"))
    /\ last.raised
    /\ plot.lines["Ax"].y # <<>>
    /\ plot.lines["Ax"].y # Channel(last.res, "Ax")

\* C8: whenever start_visualization has left plt.show() -- surface closed,
\* interrupt, exception -- the cleanup has run without raising and the
\* redraw timer is stopped, so that no further tick executes.
C8_CleanupStopsTimer ==
    phase = "Exited"
    => /\ exit_info.cleanup_ran
       /\ ~exit_info.cleanup_raised
       /\ ~timer_running

\* C9: stop_visualization does not raise in any state -- before the
\* start, after the run has ended, twice in a row -- and after it the
\* timer is not running and the chart surface is closed.
C9_StopIsSafe ==
    last.op = "stop"
    => /\ ~last.threw
       /\ ~timer_running
       /\ ~fig_open

\* C10 as stated: in every reachable state each of the six series has at
\* most window_size points and as many y-values as x-coordinates.
C10_AsStated ==
    \A c \in Series :
       /\ Len(plot.lines[c].y) <= window_size
       /\ Len(plot.lines[c].y) = Len(plot.lines[c].x)

\* C10, amended: as long as every mapping the accessor has returned had
\* its six data channels as long as its frame sequence, each of the six
\* series has at most window_size points and as many y-values as
\* x-coordinates, through ticks on windows of any length and failing ticks.
C10_DisplayWindowBounded ==
    contract_kept
    => \A c \in Series :
          /\ Len(plot.lines[c].y) <= window_size
          /\ Len(plot.lines[c].y) = Len(plot.lines[c].x)

\* a failing tick after a window longer than window_size was drawn
C10_Witness ==
    /\ contract_kept
    /\ last.op = "tick"
    /\ last.raised
    /\ \A c \in Series : Len(plot.lines[c].y) = window_size

====
